---- MODULE Spec2Model ----
(***************************************************************************)
(* Daily Planner (src/script.js): the local-first persistence layer.       *)
(*                                                                         *)
(* The planner page (index.html) is modelled: the DOM elements the         *)
(* renderers look up (.top-three-list, #notes-textarea, the meal inputs,   *)
(* .todo-list, .water-dots) are present.  localStorage is modelled within  *)
(* its quota.  The remote database is a key-value store that returns what  *)
(* was written to it.  Timers fire when they are due (SpecDebounce) or at  *)
(* any moment (Spec, SpecLoad, where time is left out).  Deleting the      *)
(* account, which reloads the page, is left out.                           *)
(*                                                                         *)
(* Spec: signing in, the remote store and the suspended storage calls.     *)
(* SpecLoad: a page that is never signed in, started on stored entries of  *)
(* every shape.  SpecDebounce: the debounce with time in milliseconds.     *)
(*                                                                         *)
(* JavaScript values are tagged records: a field that should be an array   *)
(* is [k |-> "arr", v |-> <<...>>] or, for legacy shapes, a record whose k *)
(* is "missing", "null", "obj", "str" or "num".                            *)
(*                                                                         *)
(* The variables listed under "history" record what has happened; no       *)
(* operation of the program reads them.                                    *)
(***************************************************************************)
EXTENDS Integers, Sequences, FiniteSets, TLC

\* ------------------------------------------------------------------ bounds
NumDates == 2          \* calendar days 0..NumDates-1 (day 0 is a Sunday)
MaxEdits == 2          \* mutations (triggerSave calls) in one behaviour
MaxNavLoads == 2       \* the same, in the behaviours that start signed in
MaxLoads == 1          \* loadPlan calls suspended at the same time
MaxLogins == 1         \* initWithFirebase calls in one behaviour
MaxOps == 4            \* handler calls in one behaviour of the editing specifications

\* ------------------------------------------------------- program constants
wait == 300            \* debounce(this.savePlan.bind(this), 300)
FirstHour == 6         \* schedule key '06:00'
LastHour == 23         \* schedule key '23:00'
TopThreeSlots == 3     \* for (let i = 0; i < 3; i++) in renderTopThree
WaterDots == 8         \* for (let i = 0; i < 8; i++) in renderWater

Days == 0 .. (NumDates - 1)
Hours == FirstHour .. LastHour
Users == {"u1"}
NoUser == "none"

\* ------------------------------------------------------------ JS values
NonArrayKinds == {"missing", "null", "obj", "str", "num"}
NonObjectKinds == {"missing", "null", "str", "num"}

Arr(s) == [k |-> "arr", v |-> s]
NotArr(kind) == [k |-> kind, v |-> <<>>]
IsArray(f) == f.k = "arr"

NoKeys == [h \in {} |-> ""]
Obj(f) == [k |-> "obj", v |-> f]
NotObj(kind) == [k |-> kind, v |-> NoKeys]

ScheduleTemplate == [h \in Hours |-> ""]
EmptyMeals == [breakfast |-> "", lunch |-> "", dinner |-> ""]
NoMeta == [has |-> FALSE, userId |-> NoUser, synced |-> FALSE]

\* getEmptyPlan(): the empty planner state
GetEmptyPlan ==
  [ topThree |-> Arr(<<>>),
    todos    |-> Arr(<<>>),
    schedule |-> Obj(ScheduleTemplate),
    notes    |-> "",
    meals    |-> [k |-> "obj", v |-> EmptyMeals],
    water    |-> 0,
    habits   |-> Arr(<<>>),
    meta     |-> NoMeta ]

\* The planner fields of a plan: everything but the remote metadata.
PlannerFields(p) ==
  [ topThree |-> p.topThree, todos |-> p.todos, schedule |-> p.schedule,
    notes |-> p.notes, meals |-> p.meals, water |-> p.water,
    habits |-> p.habits ]

\* ------------------------------------------------------------ utilities
RECURSIVE SeqIds(_)
SeqIds(s) == IF s = <<>> THEN {} ELSE {Head(s).id} \cup SeqIds(Tail(s))

UsedIds(p) == SeqIds(p.topThree.v) \cup SeqIds(p.todos.v) \cup SeqIds(p.habits.v)

\* generateId(): Date.now() and Math.random() give an id no item of the plan
\* has; the least unused number stands for it.
GenerateId(used) ==
  CHOOSE i \in 1 .. (Cardinality(used) + 1) :
    i \notin used /\ \A j \in 1 .. (i - 1) : j \in used

\* formatDate(date): the local calendar day of an instant.  Instants are
\* hours since 00:00 UTC of day 0; offset is the local UTC offset in hours.
FormatDate(date, offset) == (date + offset) \div 24

\* getWeekday(date): date.getDay() in local time
GetWeekday(date, offset) == FormatDate(date, offset) % 7

\* new Date('YYYY-MM-DD'): a date-only string is parsed as 00:00 UTC
NewDateFromString(day) == day * 24

\* ------------------------------------------------------------- rendering
\* renderTopThree: currentPlan.topThree[i] = currentPlan.topThree[i] ||
\* { id: generateId(), text: '', done: false } for i = 0, 1, 2
RECURSIVE PadTopThree(_, _)
PadTopThree(arr, used) ==
  IF Len(arr) >= TopThreeSlots THEN arr
  ELSE LET id == GenerateId(used)
       IN PadTopThree(Append(arr, [id |-> id, text |-> "", done |-> FALSE]),
                      used \cup {id})

RenderTopThree(p) ==
  [p EXCEPT !.topThree = Arr(PadTopThree(p.topThree.v, UsedIds(p)))]

\* renderMeals reads currentPlan.meals.breakfast: a TypeError when meals is
\* undefined or null.  The other renderers do not throw on the shapes
\* modelled here.
RenderThrows(p) == p.meals.k # "obj"

\* A renderAll on a page without the .top-three-list element.
RenderNoTopThree(p) == p

\* renderAll(): of the seven renderers only renderTopThree changes the plan
RenderAll(p) == RenderTopThree(p)


\* ------------------------------------------------------- stored entries
\* What a store holds under one key.  t is "none" (no entry), "garbage"
\* (text that is not JSON), "falsy" (JSON null, 0, false, ""), "truthy"
\* (another JSON primitive) or "obj" (a JSON object, o).
NoEntry == [t |-> "none", o |-> GetEmptyPlan]
Garbage == [t |-> "garbage", o |-> GetEmptyPlan]
Falsy == [t |-> "falsy", o |-> GetEmptyPlan]
Truthy == [t |-> "truthy", o |-> GetEmptyPlan]
ObjEntry(p) == [t |-> "obj", o |-> p]

\* A stringify that loses the notes.
JSONStringifyNoNotes(data) == ObjEntry([data EXCEPT !.notes = ""])

\* JSON.stringify(data): an object becomes JSON text; properties whose value
\* is undefined ("missing") are left out, so they are missing in the text.
JSONStringify(data) == ObjEntry(data)

\* What storage.get hands to loadPlan: r is "throw" (the promise rejects),
\* "null", "truthy" (a primitive) or "obj"; src names the branch taken.
GetResult(r, o, src) == [r |-> r, o |-> o, src |-> src]

\* The localStorage part of storage.get:
\*   const data = localStorage.getItem(key);
\*   if (data) return JSON.parse(data);  return null;
\* JSON.parse of text that is not JSON throws, in the try block and again
\* in the catch block, so get rejects.
StorageGetLocal(entry) ==
  CASE entry.t = "none"    -> GetResult("null", GetEmptyPlan, "none")
    [] entry.t = "garbage" -> GetResult("throw", GetEmptyPlan, "local")
    [] entry.t = "falsy"   -> GetResult("null", GetEmptyPlan, "local")
    [] entry.t = "truthy"  -> GetResult("truthy", GetEmptyPlan, "local")
    [] OTHER               -> GetResult("obj", entry.o, "local")

\* A storage.get that answers from localStorage whenever it has an entry.
StorageGetLocalFirst(snap, err, entry) ==
  IF entry.t = "none" /\ ~err /\ snap.t = "obj"
  THEN GetResult("obj", snap.o, "remote")
  ELSE StorageGetLocal(entry)

\* storage.get once the remote read has answered (snap) or failed (err):
\* if (snapshot.exists()) return snapshot.val(); otherwise, and in the catch
\* block, the localStorage entry.
StorageGetRemote(snap, err, entry) ==
  IF ~err /\ snap.t = "obj"
  THEN GetResult("obj", snap.o, "remote")
  ELSE StorageGetLocal(entry)

\* The remote payload of storage.set:
\*   { ...data, lastUpdated, userId: this._userId, projectId, page }
\* (a synced flag already in data is kept by the spread)
SetPayload(data, uid) ==
  [data EXCEPT !.meta = [has |-> TRUE, userId |-> uid, synced |-> data.meta.synced]]

\* A sync payload without the synced flag.
SyncPayloadUnsynced(data, uid) == SetPayload(data, uid)

\* The remote payload of syncToFirebase: as above with synced: true
SyncPayload(data, uid) ==
  [data EXCEPT !.meta = [has |-> TRUE, userId |-> uid, synced |-> TRUE]]

\* A storage.set that writes localStorage only when there is no session.
StorageSetRemoteOnly(ls, key, data, session) ==
  IF session THEN ls ELSE [ls EXCEPT ![key] = JSONStringify(data)]

\* The local write of storage.set:
\*   localStorage.setItem(`${page}:${dateStr}`, JSON.stringify(data))
\* It comes first, whether Firebase is ready or not.
StorageSetLocal(ls, key, data, session) ==
  [ls EXCEPT ![key] = JSONStringify(data)]

\* ---------------------------------------------------------- loadPlan
\* A normalisation that leaves a field that is not an array as it is.
NormalizeArrayKeep(f) == f

\* The normalisation of loadPlan (lines 341-365)
NormalizeArray(f) == IF IsArray(f) THEN f ELSE Arr(<<>>)

NormalizeSchedule(f) ==
  IF f.k \in NonObjectKinds THEN Obj(ScheduleTemplate) ELSE f

Normalize(p) ==
  [p EXCEPT !.habits = NormalizeArray(p.habits),
            !.todos = NormalizeArray(p.todos),
            !.topThree = NormalizeArray(p.topThree),
            !.schedule = NormalizeSchedule(p.schedule)]

\* loadPlan after storage.get has settled.  The catch block (get rejected,
\* a primitive that cannot take properties, a renderer that throws) puts
\* the empty plan in place and renders it.
LoadPlanBody(res) ==
  IF res.r = "throw" \/ res.r = "truthy"
  THEN RenderAll(GetEmptyPlan)
  ELSE LET data == IF res.r = "obj" THEN res.o ELSE GetEmptyPlan
           n == Normalize(data)
       IN IF RenderThrows(n) THEN RenderAll(GetEmptyPlan) ELSE RenderAll(n)


\* ------------------------------------------------------------- debounce
\* The timers the browser holds are records [id, left]: left is the time in
\* ms until the timer is due.
ClearTimeout(ts, id) == {t \in ts : t.id # id}

SetTimeout(ts, ms) ==
  LET id == GenerateId({t.id : t \in ts})
  IN [timers |-> ts \cup {[id |-> id, left |-> ms]}, timeout |-> id]

\* A debounce that does not clear the pending timer.
ExecutedNoClear(ts, to) == SetTimeout(ts, wait)

\* executedFunction of debounce(func, wait):
\*   clearTimeout(timeout); timeout = setTimeout(later, wait);
ExecutedFunction(ts, to) == SetTimeout(ClearTimeout(ts, to), wait)

\* later of debounce, when timer t fires: clearTimeout(timeout); func(...)
Later(ts, to, t) == ClearTimeout(ts \ {t}, to)

\* ------------------------------------------------------------------ state
VARIABLES
  tz,             \* the UTC offset of the browser, in hours
  currentDate,    \* let currentDate: an instant
  currentPlan,    \* let currentPlan
  bound,          \* DOMContentLoaded has run: the event handlers are bound
  plannerApp,     \* let plannerApp is set (the first load has finished)
  timeout,        \* the timeout variable of saveDebounced's closure
  timers,         \* the timers setTimeout has started and that are not over
  localStorage,   \* localStorage, the planner:<date> keys
  remote,         \* the database, projects/daily-planner/users/<u>/planner/<date>
  firebaseReady,  \* storage._firebaseReady
  userId,         \* storage._userId
  windowFirebase, \* window.firebase is set
  loads,          \* the loadPlan calls suspended in storage.get
  saves,          \* the storage.set calls suspended after their local write
  fb,             \* the initWithFirebase call in progress
  nLogins,        \* history: the number of initWithFirebase calls
  nEdits,         \* history: the number of mutations made
  planDates,      \* history: the dates currentPlan was loaded for or edited under
  dirty,          \* history: currentPlan holds a mutation, made since the active
                  \*   date was set, that no write under that date contains yet
  lost,           \* history: the last such mutation left memory before any
                  \*   write under the active date contained it
  cleared,        \* history: the dates cleared by clear-all and not edited since
  ev,             \* history: the last event (a storage.set call, its return,
                  \*   the end of a loadPlan) and what was observed at it
  dbc,            \* history: the calls and firings of saveDebounced, timed
  pend            \* history: the mutation the pending timer was set for

vars == << tz, currentDate, currentPlan, bound, plannerApp, timeout, timers,
           localStorage, remote, firebaseReady, userId, windowFirebase,
           loads, saves, fb, nLogins, nEdits, planDates, dirty, lost, cleared, ev, dbc,
           pend >>

KeyDays == (-1) .. (NumDates - 1)
Now == 0          \* new Date() at page load: 00:00 UTC of day 0
Texts == {"a"}

\* this._firebaseReady && this._userId && window.firebase
Session == firebaseReady /\ userId # NoUser /\ windowFirebase

\* formatDate(currentDate)
Key == FormatDate(currentDate, tz)

Remove(s, i) == [j \in 1 .. (Len(s) - 1) |-> IF j < i THEN s[j] ELSE s[j + 1]]

\* --------------------------------------------------------------- history
EvOther == [type |-> "other"]

\* A storage.set call: the key, the dates of the plan written, whether a
\* session was active, and whether the localStorage entry of the key was the
\* JSON text of the plan when the call reached its remote part or returned.
EvSet(key, dates, sess, localFirst) ==
  [type |-> "set", key |-> key, dates |-> dates, sess |-> sess,
   localFirst |-> localFirst]

\* The return of a suspended storage.set call: how the remote write went,
\* whether a later call has written the same key, and whether the
\* localStorage entry of the key is the JSON text of the plan S it was
\* called with.
EvReturn(how, s, ls) ==
  [type |-> "return", outcome |-> how, key |-> s.key,
   superseded |-> s.superseded, localIsS |-> ls[s.key] = JSONStringify(s.S)]

\* The end of a loadPlan call: what it saw (a session, a remote entry, a
\* remote error, a local entry) and what it took from storage.get, compared
\* with the two entries.
EvLoad(key, sess, snap, err, entry, res) ==
  [ type |-> "load", key |-> key, sess |-> sess,
    rem |-> sess /\ snap.t # "none", err |-> err, loc |-> entry.t # "none",
    isRem |-> res.r = "obj" /\ snap.t = "obj" /\ res.o = snap.o,
    isLoc |-> res.r = "obj" /\ entry.t = "obj" /\ res.o = entry.o,
    isEmpty |-> res.r # "obj" ]

\* syncToFirebase is one try block: the import, the parse of a local entry,
\* ref() and set() are all inside it.
SyncTryBlock == {"import", "parse", "ref", "set"}
SyncRaises(cause) == cause \notin SyncTryBlock

\* The catch block of syncToFirebase has logged an error: whether there was
\* a session, and which statement threw.
\* f is the sync as it was, key the entry it failed on.
EvSyncError(sess, cause, f, key) ==
  [type |-> "syncerror", sess |-> sess, cause |-> cause, key |-> key,
   done |-> f.done, rest |-> f.todo \ {key}, touched |-> f.touched,
   start |-> f.start, raised |-> SyncRaises(cause)]

\* No timer is pending for a mutation.
PendNone == [on |-> FALSE, key |-> 0, moved |-> FALSE, mem |-> FALSE]

\* A mutation was made under date key and triggerSave called: the mutation
\* is in the plan in memory and the active date has not changed since.
PendEdit(key) == [on |-> TRUE, key |-> key, moved |-> FALSE, mem |-> TRUE]

\* loadPlan is called for date key while the active date was old: the
\* active date has changed since the pending mutation.
PendMove(pd, key, old) ==
  IF pd.on /\ key # old THEN [pd EXCEPT !.moved = TRUE] ELSE pd

\* loadPlan has replaced currentPlan: the pending mutation is not in memory.
PendLoaded(pd) == IF pd.on THEN [pd EXCEPT !.mem = FALSE] ELSE pd

DbcIdle == [on |-> FALSE, calls |-> 0, fired |-> 0, since |-> 0,
            close |-> TRUE, far |-> TRUE, onTime |-> TRUE]

DbcCall(d) ==
  IF ~d.on THEN d
  ELSE [d EXCEPT !.calls = @ + 1, !.since = 0,
                 !.close = @ /\ (d.calls = 0 \/ d.since < wait),
                 !.far = @ /\ (d.calls = 0 \/ d.since > wait)]

DbcFire(d) ==
  IF ~d.on THEN d
  ELSE [d EXCEPT !.fired = @ + 1, !.onTime = @ /\ d.since = wait]

\* ------------------------------------------------------------ triggerSave
\* triggerSave(): this.saveDebounced()
TriggerSave ==
  LET d == ExecutedFunction(timers, timeout)
  IN /\ timers' = d.timers
     /\ timeout' = d.timeout
     /\ dbc' = DbcCall(dbc)

\* A handler changes currentPlan in place to p and calls triggerSave.  The
\* storage.set calls that still hold the object see the change.
Edit(p, event) ==
  /\ bound
  /\ currentPlan' = p
  /\ saves' = [i \in DOMAIN saves |->
                 IF saves[i].live
                 THEN [saves[i] EXCEPT !.data = p, !.dates = @ \cup {Key},
                                       !.carries = TRUE]
                 ELSE [saves[i] EXCEPT !.carries = FALSE]]
  /\ nEdits' = nEdits + 1
  /\ planDates' = planDates \cup {Key}
  /\ dirty' = TRUE
  /\ lost' = FALSE
  /\ cleared' = cleared \ {Key}
  /\ ev' = event
  /\ pend' = PendEdit(Key)
  /\ TriggerSave
  /\ UNCHANGED << tz, currentDate, bound, plannerApp, localStorage, remote,
                  firebaseReady, userId, windowFirebase, loads, fb, nLogins >>

\* An edit, as long as the behaviour has room for one
Mutate(p) == nEdits < MaxEdits /\ Edit(p, EvOther)

\* bindNotesEvents: currentPlan.notes = e.target.value; this.triggerSave()
NotesInput ==
  \E text \in Texts : Mutate([currentPlan EXCEPT !.notes = text])

\* bindScheduleEvents, the input handler of a rendered .schedule-input:
\*   currentPlan.schedule[time] = e.target.value; this.triggerSave()
\* renderSchedule makes one input for each key the schedule has.
ScheduleEdit(p, time, text) == [p EXCEPT !.schedule.v[time] = text]

ScheduleInput ==
  \E time \in DOMAIN currentPlan.schedule.v \cap {FirstHour, LastHour} :
    \E text \in Texts : Mutate(ScheduleEdit(currentPlan, time, text))

\* clearAllData(): after confirm(), currentPlan = getEmptyPlan();
\* this.renderAll(); this.triggerSave().  The storage.set calls that hold
\* the old object keep it.
ClearAllData ==
  \E confirmed \in BOOLEAN :
    /\ bound
    /\ IF ~confirmed THEN UNCHANGED vars
       ELSE /\ nEdits < MaxEdits
            /\ currentPlan' = RenderAll(GetEmptyPlan)
            /\ saves' = [i \in DOMAIN saves |-> [saves[i] EXCEPT !.live = FALSE]]
            /\ nEdits' = nEdits + 1
            /\ planDates' = {Key}
            /\ dirty' = TRUE
            /\ lost' = FALSE
            /\ cleared' = cleared \cup {Key}
            /\ ev' = EvOther
            /\ pend' = PendEdit(Key)
            /\ TriggerSave
            /\ UNCHANGED << tz, currentDate, bound, plannerApp, localStorage,
                            remote, firebaseReady, userId, windowFirebase,
                            loads, fb, nLogins >>

\* --------------------------------------------------------------- loadPlan
\* loadPlan from the point where storage.get has settled with res:
\* currentPlan is replaced, so the suspended storage.set calls hold the old
\* object from now on.  d and l are dirty and lost as the caller left them.
FinishLoad(res, key, boot, d, l, seen, pd) ==
  /\ currentPlan' = LoadPlanBody(res)
  /\ pend' = PendLoaded(pd)
  /\ saves' = [i \in DOMAIN saves |-> [saves[i] EXCEPT !.live = FALSE]]
  /\ plannerApp' = (plannerApp \/ boot)
  /\ planDates' = {key}
  /\ dirty' = FALSE
  /\ lost' = (l \/ d)
  /\ ev' = seen

\* How many loadPlan calls a behaviour lets be suspended at once
LoadBound == IF nLogins = 0 THEN MaxNavLoads ELSE MaxLoads

\* loadPlan(dateStr) up to the first suspension.  Without a session
\* storage.get touches localStorage only and loadPlan finishes before any
\* other task runs; with a session the call is suspended in the remote read.
LoadPlanCall(key, boot, d, l) ==
  IF Session
  THEN /\ Len(loads) < LoadBound
       /\ loads' = Append(loads, [key |-> key, boot |-> boot, stage |-> "get",
                                  snap |-> NoEntry, err |-> FALSE])
       /\ dirty' = d
       /\ lost' = l
       /\ ev' = EvOther
       /\ pend' = PendMove(pend, key, Key)
       /\ UNCHANGED << currentPlan, saves, plannerApp, planDates >>
  ELSE /\ FinishLoad(StorageGetLocal(localStorage[key]), key, boot, d, l,
                     EvLoad(key, FALSE, NoEntry, FALSE, localStorage[key],
                            StorageGetLocal(localStorage[key])),
                     PendMove(pend, key, Key))
       /\ UNCHANGED loads

\* The remote read of a suspended load is served: get(dataRef) reads
\* projects/daily-planner/users/<_userId>/planner/<key>, or fails (the
\* import or the network).
LoadRemoteRead ==
  \E i \in DOMAIN loads : \E failed \in BOOLEAN :
    /\ loads[i].stage = "get"
    /\ loads' = [loads EXCEPT ![i] =
                   [@ EXCEPT !.stage = "resp", !.err = failed,
                             !.snap = remote[userId][loads[i].key]]]
    /\ ev' = EvOther
    /\ UNCHANGED << tz, currentDate, currentPlan, bound, plannerApp, timeout,
                    timers, localStorage, remote, firebaseReady, userId,
                    windowFirebase, saves, fb, nLogins, nEdits, planDates,
                    dirty, lost, cleared, dbc, pend >>

\* The answer reaches the page: storage.get returns and loadPlan goes on.
LoadReturn ==
  \E i \in DOMAIN loads :
    /\ loads[i].stage = "resp"
    /\ LET l == loads[i]
           entry == localStorage[l.key]
           res == StorageGetRemote(l.snap, l.err, entry)
       IN FinishLoad(res, l.key, l.boot, dirty, lost,
                     EvLoad(l.key, TRUE, l.snap, l.err, entry, res), pend)
    /\ loads' = Remove(loads, i)
    /\ UNCHANGED << tz, currentDate, bound, timeout, timers, localStorage,
                    remote, firebaseReady, userId, windowFirebase, fb, nLogins,
                    nEdits, cleared, dbc >>

\* DOMContentLoaded: the handlers are bound, then
\* await planner.loadPlan(formatDate(currentDate)); plannerApp = planner
DOMContentLoaded ==
  /\ ~bound
  /\ bound' = TRUE
  /\ LoadPlanCall(Key, TRUE, dirty, lost)
  /\ UNCHANGED << tz, currentDate, timeout, timers, localStorage, remote,
                  firebaseReady, userId, windowFirebase, fb, nLogins, nEdits,
                  cleared, dbc >>

\* ------------------------------------------------------------- navigation
\* currentDate is set, then loadPlan is called and not awaited.  dirty and
\* lost are about the active date: they start again when it changes.
NavigateTo(date) ==
  /\ bound
  /\ FormatDate(date, tz) \in KeyDays
  /\ currentDate' = date
  /\ IF FormatDate(date, tz) = Key
     THEN LoadPlanCall(Key, FALSE, dirty, lost)
     ELSE LoadPlanCall(FormatDate(date, tz), FALSE, FALSE, FALSE)
  /\ UNCHANGED << tz, bound, timeout, timers, localStorage, remote,
                  firebaseReady, userId, windowFirebase, fb, nLogins, nEdits,
                  cleared, dbc >>

\* The date picker's change handler:
\*   currentDate = new Date(e.target.value);
\*   this.planner.loadPlan(formatDate(currentDate))
DatePickerChange ==
  \E day \in Days : NavigateTo(NewDateFromString(day))

\* goToWeekday(targetDay):
\*   currentDate.setDate(currentDate.getDate() + targetDay - getWeekday(currentDate));
\*   this.planner.loadPlan(formatDate(currentDate))
GoToWeekday ==
  \E targetDay \in Days :
    NavigateTo(currentDate + 24 * (targetDay - GetWeekday(currentDate, tz)))

\* --------------------------------------------------------------- savePlan
\* The debounce timer t is due: later() runs savePlan(),
\*   const dateStr = formatDate(currentDate);
\*   await storage.set(dateStr, currentPlan, 'planner');
\* storage.set writes localStorage, then, with a session, is suspended in
\* await import(...) with data still the currentPlan object.
SavePlan(t) ==
  /\ timers' = Later(timers, timeout, t)
  /\ dbc' = DbcFire(dbc)
  /\ localStorage' = StorageSetLocal(localStorage, Key, currentPlan, Session)
  /\ dirty' = FALSE
  /\ ev' = EvSet(Key, planDates, Session,
                 localStorage'[Key] = JSONStringify(currentPlan))
  /\ pend' = PendNone
  /\ IF Session
     THEN saves' = Append(
               [i \in DOMAIN saves |->
                  IF saves[i].key = Key
                  THEN [saves[i] EXCEPT !.superseded = TRUE] ELSE saves[i]],
               [ key |-> Key, data |-> currentPlan, live |-> TRUE,
                 stage |-> "import", uid |-> NoUser, payload |-> GetEmptyPlan,
                 S |-> currentPlan, dates |-> planDates, superseded |-> FALSE,
                 carries |-> FALSE,
                 localFirst |-> localStorage'[Key] = JSONStringify(currentPlan) ])
     ELSE UNCHANGED saves
  /\ fb' = IF fb.pc = "push" THEN [fb EXCEPT !.touched = @ \cup {Key}] ELSE fb
  /\ UNCHANGED << tz, currentDate, currentPlan, bound, plannerApp, timeout,
                  remote, firebaseReady, userId, windowFirebase, loads,
                  nLogins, nEdits, planDates, lost, cleared >>

\* In the model without time a pending timer may become due at any moment.
TimerFires == \E t \in timers : SavePlan(t)

\* await import(...) of a suspended storage.set is over: the payload
\* { ...data, lastUpdated, userId, projectId, page } is built from the object
\* as it is now and set(dataRef, payload) is issued.
SetIssueRemote ==
  \E i \in DOMAIN saves :
    /\ saves[i].stage = "import"
    /\ saves' = [saves EXCEPT ![i] =
                   [@ EXCEPT !.stage = "write", !.uid = userId,
                             !.payload = SetPayload(saves[i].data, userId),
                             !.data = GetEmptyPlan, !.live = FALSE]]
    /\ ev' = EvOther
    /\ UNCHANGED << tz, currentDate, currentPlan, bound, plannerApp, timeout,
                    timers, localStorage, remote, firebaseReady, userId,
                    windowFirebase, loads, fb, nLogins, nEdits, planDates,
                    dirty, lost, cleared, dbc, pend >>

\* The remote write lands and storage.set returns.
SetRemoteOk ==
  \E i \in DOMAIN saves :
    /\ saves[i].stage = "write"
    /\ remote' = [remote EXCEPT ![saves[i].uid][saves[i].key] =
                                   ObjEntry(saves[i].payload)]
    /\ ev' = EvReturn("ok", saves[i], localStorage)
    /\ saves' = Remove(saves, i)
    /\ UNCHANGED << tz, currentDate, currentPlan, bound, plannerApp, timeout,
                    timers, localStorage, firebaseReady, userId,
                    windowFirebase, loads, fb, nLogins, nEdits, planDates,
                    dirty, lost, cleared, dbc, pend >>

\* A catch block that takes the local entry back.
SetCatchRollback(ls, key) == [ls EXCEPT ![key] = NoEntry]

\* What the catch block of storage.set does to localStorage: nothing
\* ("localStorage backup already saved above").
SetCatch(ls, key) == ls

\* The import or the remote write throws: the catch block logs the error and
\* storage.set returns.
SetRemoteFail ==
  \E i \in DOMAIN saves :
    /\ localStorage' = SetCatch(localStorage, saves[i].key)
    /\ ev' = EvReturn("failed", saves[i], localStorage')
    /\ saves' = Remove(saves, i)
    /\ UNCHANGED << tz, currentDate, currentPlan, bound, plannerApp, timeout,
                    timers, remote, firebaseReady, userId, windowFirebase,
                    loads, fb, nLogins, nEdits, planDates, dirty, lost,
                    cleared, dbc, pend >>

\* ------------------------------------------------------- initWithFirebase
\* fb.touched is history: the planner keys storage.set has been called on
\* while the sync is under way (calls still suspended at its start included).
\* fb.done is history too: the keys pushed so far, and fb.start the remote
\* entries of the user when the keys were listed.
NoEntries == [k \in KeyDays |-> NoEntry]
FbIdle == [pc |-> "idle", todo |-> {}, touched |-> {}, done |-> {},
           start |-> NoEntries]

\* A sync that goes on with the next entry after a failure.
SyncFailedSkip(f, k) == [f EXCEPT !.todo = @ \ {k}]

\* An exception in the loop of syncToFirebase: control leaves both loops
\* for the catch block, and the function returns.
SyncFailed(f, k) == [FbIdle EXCEPT !.pc = "reload"]

\* A catch block that removes what the sync has pushed.
SyncCatchRollback(rem, uid, done) ==
  [rem EXCEPT ![uid] = [k \in KeyDays |-> IF k \in done THEN NoEntry ELSE @[k]]]

\* What the catch block of syncToFirebase does to the remote store: nothing
\* (console.error only).
SyncCatch(rem, uid, done) == rem

\* window.initWithFirebase(userId): storage.initFirebase(userId, ...), then
\* await storage.initializeUserInfo(userId), which reads and writes the
\* userInfo entries only and is suspended in that.
InitWithFirebase ==
  \E u \in Users :
    /\ fb.pc = "idle"
    /\ nLogins < MaxLogins
    /\ nLogins' = nLogins + 1
    /\ firebaseReady' = TRUE
    /\ userId' = u
    /\ fb' = [FbIdle EXCEPT !.pc = "sync"]
    /\ ev' = EvOther
    /\ UNCHANGED << tz, currentDate, currentPlan, bound, plannerApp, timeout,
                    timers, localStorage, remote, windowFirebase, loads, saves,
                    nEdits, planDates, dirty, lost, cleared, dbc, pend >>

\* storage.syncToFirebase() after its await import(...): the planner keys of
\* localStorage are listed.  A failed import ends the sync in its catch block.
SyncStart ==
  \E failed \in BOOLEAN :
    /\ fb.pc = "sync"
    /\ fb' = IF failed THEN [FbIdle EXCEPT !.pc = "reload"]
             ELSE [pc |-> "push",
                   todo |-> {k \in KeyDays : localStorage[k].t # "none"},
                   touched |-> {saves[i].key : i \in DOMAIN saves},
                   done |-> {}, start |-> remote[userId]]
    /\ ev' = EvOther
    /\ UNCHANGED << tz, currentDate, currentPlan, bound, plannerApp, timeout,
                    timers, localStorage, remote, firebaseReady, userId,
                    windowFirebase, loads, saves, nLogins, nEdits, planDates,
                    dirty, lost, cleared, dbc, pend >>

\* One turn of the loop of syncToFirebase: JSON.parse(localStorage.getItem(key))
\* and await set(dataRef, { ...data, ..., synced: true }).  Without
\* window.firebase ref(window.firebase.db, ...) throws; text that is not JSON
\* makes JSON.parse throw; the remote write may fail: the catch block ends
\* the sync.
SyncPush ==
  \E k \in fb.todo : \E failed \in BOOLEAN :
    /\ fb.pc = "push"
    /\ IF failed \/ ~windowFirebase \/ localStorage[k].t # "obj"
       THEN /\ fb' = SyncFailed(fb, k)
            /\ remote' = SyncCatch(remote, userId, fb.done)
       ELSE /\ remote' = [remote EXCEPT ![userId][k] =
                            ObjEntry(SyncPayload(localStorage[k].o, userId))]
            /\ fb' = [fb EXCEPT !.todo = @ \ {k}, !.done = @ \cup {k}]
    /\ ev' = IF failed \/ ~windowFirebase \/ localStorage[k].t # "obj"
             THEN EvSyncError(Session,
                              IF localStorage[k].t # "obj" THEN "parse"
                              ELSE IF ~windowFirebase THEN "ref" ELSE "set",
                              fb, k)
             ELSE EvOther
    /\ UNCHANGED << tz, currentDate, currentPlan, bound, plannerApp, timeout,
                    timers, localStorage, firebaseReady, userId,
                    windowFirebase, loads, saves, nLogins, nEdits, planDates,
                    dirty, lost, cleared, dbc, pend >>

\* The end of initWithFirebase, after the sync:
\*   if (plannerApp) await plannerApp.loadPlan(formatDate(currentDate))
SyncReload ==
  /\ fb.pc = "reload" \/ (fb.pc = "push" /\ fb.todo = {})
  /\ fb' = FbIdle
  /\ IF plannerApp THEN LoadPlanCall(Key, FALSE, dirty, lost)
     ELSE /\ ev' = EvOther
          /\ UNCHANGED << currentPlan, saves, plannerApp, loads, planDates,
                          dirty, lost, pend >>
  /\ UNCHANGED << tz, currentDate, bound, timeout, timers, localStorage,
                  remote, firebaseReady, userId, windowFirebase, nLogins,
                  nEdits, cleared, dbc >>

\* ------------------------------------------------------ the specification
\* The state after the script has been evaluated: currentPlan =
\* getEmptyPlan(), currentDate = new Date(), storage without a session, both
\* stores empty.
InitProgram ==
  /\ currentDate = Now
  /\ currentPlan = GetEmptyPlan
  /\ bound = FALSE
  /\ plannerApp = FALSE
  /\ timeout = 0
  /\ timers = {}
  /\ localStorage = [k \in KeyDays |-> NoEntry]
  /\ remote = [u \in Users |-> [k \in KeyDays |-> NoEntry]]
  /\ firebaseReady = FALSE
  /\ userId = NoUser
  /\ loads = << >>
  /\ saves = << >>
  /\ fb = FbIdle
  /\ nLogins = 0
  /\ nEdits = 0
  /\ planDates = {}
  /\ dirty = FALSE
  /\ lost = FALSE
  /\ cleared = {}
  /\ ev = EvOther

Init ==
  /\ InitProgram
  /\ tz = 0
  /\ windowFirebase \in BOOLEAN
  /\ dbc = DbcIdle
  /\ pend = PendNone

Next ==
  \/ DOMContentLoaded
  \/ NotesInput
  \/ DatePickerChange
  \/ GoToWeekday
  \/ TimerFires
  \/ SetIssueRemote
  \/ SetRemoteOk
  \/ SetRemoteFail
  \/ LoadRemoteRead
  \/ LoadReturn
  \/ InitWithFirebase
  \/ SyncStart
  \/ SyncPush
  \/ SyncReload

Spec == Init /\ [][Next]_vars

\* ------------------------------------------------- stored legacy shapes
\* The page started on a device whose localStorage already holds an entry
\* for day 0, written by this or an older version of the app or by hand.
TopItem(i) == [id |-> i, text |-> "", done |-> FALSE]
TodoItem(i) == [id |-> i, text |-> "a", done |-> FALSE, order |-> 0]
HabitItem(i) == [id |-> i, name |-> "a"]

TopThreeShapes ==
  {Arr(<<>>), Arr(<<TopItem(1)>>), Arr(<<TopItem(1), TopItem(2), TopItem(3)>>)}
    \cup {NotArr(kind) : kind \in NonArrayKinds}
TodosShapes ==
  {Arr(<<>>), Arr(<<TodoItem(4)>>)} \cup {NotArr(kind) : kind \in NonArrayKinds}
HabitsShapes ==
  {Arr(<<>>), Arr(<<HabitItem(5)>>)} \cup {NotArr(kind) : kind \in NonArrayKinds}
ScheduleShapes ==
  {Obj(ScheduleTemplate), Obj([ScheduleTemplate EXCEPT ![FirstHour] = "a"])}
    \cup {NotObj(kind) : kind \in NonObjectKinds}
MealsShapes == {Obj(EmptyMeals), NotObj("missing")}

\* Schedule objects that lack hour keys or carry a key that is no hour of
\* the template, and a topThree array of four items
OddScheduleShapes ==
  { Obj([h \in {FirstHour} |-> "a"]),
    Obj([h \in Hours \ {LastHour} |-> ""]),
    Obj([h \in Hours \cup {LastHour + 1} |-> ""]) }
LongTopThree == Arr(<<TopItem(1), TopItem(2), TopItem(3), TopItem(4)>>)

\* Stored objects: one field of the empty plan replaced by a shape, or all
\* four of topThree, todos, habits and schedule by the same legacy kind, or
\* all by their filled shapes.
StoredPlans ==
  {[GetEmptyPlan EXCEPT !.topThree = f] : f \in TopThreeShapes}
    \cup {[GetEmptyPlan EXCEPT !.todos = f] : f \in TodosShapes}
    \cup {[GetEmptyPlan EXCEPT !.habits = f] : f \in HabitsShapes}
    \cup {[GetEmptyPlan EXCEPT !.schedule = f] : f \in ScheduleShapes}
    \cup {[GetEmptyPlan EXCEPT !.schedule = f] : f \in OddScheduleShapes}
    \cup {[GetEmptyPlan EXCEPT !.topThree = LongTopThree]}
    \cup {[GetEmptyPlan EXCEPT !.meals = f, !.todos = g] :
            f \in MealsShapes, g \in TodosShapes}
    \cup {[GetEmptyPlan EXCEPT !.topThree = NotArr(kind), !.todos = NotArr(kind),
                               !.habits = NotArr(kind), !.schedule = NotObj(kind)] :
            kind \in NonObjectKinds}
    \cup {[GetEmptyPlan EXCEPT
             !.topThree = Arr(<<TopItem(1), TopItem(2), TopItem(3)>>),
             !.todos = Arr(<<TodoItem(4)>>), !.habits = Arr(<<HabitItem(5)>>),
             !.schedule = Obj([ScheduleTemplate EXCEPT ![FirstHour] = "a"]),
             !.water = w] : w \in {0, WaterDots}}

StoredEntries ==
  {NoEntry, Garbage, Falsy, Truthy} \cup {ObjEntry(p) : p \in StoredPlans}

\* No session is ever started: the page is used without signing in.
InitLoad ==
  /\ currentDate = Now
  /\ currentPlan = GetEmptyPlan
  /\ bound = FALSE
  /\ plannerApp = FALSE
  /\ timeout = 0
  /\ timers = {}
  /\ \E e \in StoredEntries :
       localStorage = [k \in KeyDays |-> IF k = 0 THEN e ELSE NoEntry]
  /\ remote = [u \in Users |-> [k \in KeyDays |-> NoEntry]]
  /\ firebaseReady = FALSE
  /\ userId = NoUser
  /\ windowFirebase \in BOOLEAN
  /\ loads = << >>
  /\ saves = << >>
  /\ fb = FbIdle
  /\ nLogins = 0
  /\ nEdits = 0
  /\ planDates = {}
  /\ dirty = FALSE
  /\ lost = FALSE
  /\ cleared = {}
  /\ ev = EvOther
  /\ tz = 0
  /\ dbc = DbcIdle
  /\ pend = PendNone

NextLoad ==
  \/ DOMContentLoaded
  \/ NotesInput
  \/ ScheduleInput
  \/ ClearAllData
  \/ DatePickerChange
  \/ GoToWeekday
  \/ TimerFires

SpecLoad == InitLoad /\ [][NextLoad]_vars

\* ------------------------------------------------------ debounce in time
\* One millisecond passes.  A timer that is due fires before time goes on.
Tick ==
  /\ \A t \in timers : t.left > 0
  /\ timers' = {[t EXCEPT !.left = @ - 1] : t \in timers}
  /\ dbc' = [dbc EXCEPT !.since = IF @ > wait THEN @ ELSE @ + 1]
  /\ ev' = EvOther
  /\ UNCHANGED << tz, currentDate, currentPlan, bound, plannerApp, timeout,
                  localStorage, remote, firebaseReady, userId, windowFirebase,
                  loads, saves, fb, nLogins, nEdits, planDates, dirty, lost,
                  cleared, pend >>

\* The timer fires when its delay is over.
TimerDue == \E t \in timers : t.left = 0 /\ SavePlan(t)

InitDebounce ==
  /\ InitProgram
  /\ tz = 0
  /\ windowFirebase = FALSE
  /\ dbc = [DbcIdle EXCEPT !.on = TRUE]
  /\ pend = PendNone

NextDebounce ==
  \/ DOMContentLoaded
  \/ NotesInput
  \/ Tick
  \/ TimerDue

SpecDebounce == InitDebounce /\ [][NextDebounce]_vars

\* ------------------------------------------------------------------ todos
\* An editing specification lets MaxOps handler calls happen.
Op(p, event) == nEdits < MaxOps /\ Edit(p, event)

\* [...todos].sort((a, b) => (a.order || 0) - (b.order || 0)): a stable sort
RECURSIVE InsertByOrder(_, _)
InsertByOrder(s, t) ==
  IF s = << >> THEN << t >>
  ELSE IF Head(s).order <= t.order
       THEN << Head(s) >> \o InsertByOrder(Tail(s), t)
       ELSE << t >> \o s

RECURSIVE SortByOrder(_)
SortByOrder(s) ==
  IF s = << >> THEN << >>
  ELSE InsertByOrder(SortByOrder(SubSeq(s, 1, Len(s) - 1)), s[Len(s)])

\* todos.findIndex(t => t.id === id), counted from 1; 0 when there is none
FindIndex(s, id) ==
  IF \E k \in 1 .. Len(s) : s[k].id = id
  THEN CHOOSE k \in 1 .. Len(s) :
         s[k].id = id /\ \A m \in 1 .. (k - 1) : s[m].id # id
  ELSE 0

\* array.splice(index, 1) and array.splice(index, 0, item), index from 1
SpliceOut(s, k) == SubSeq(s, 1, k - 1) \o SubSeq(s, k + 1, Len(s))
SpliceIn(s, k, item) ==
  IF k > Len(s) THEN Append(s, item)
  ELSE SubSeq(s, 1, k - 1) \o << item >> \o SubSeq(s, k, Len(s))

\* todos.forEach((todo, index) => { todo.order = index; })
Renumber(s) == [k \in 1 .. Len(s) |-> [s[k] EXCEPT !.order = k - 1]]

\* addTodo: { id: generateId(), text, done: false, order: todos.length }
AddTodo(p, text) ==
  [p EXCEPT !.todos = Arr(Append(p.todos.v,
      [id |-> GenerateId(UsedIds(p)), text |-> text, done |-> FALSE,
       order |-> Len(p.todos.v)]))]

\* the delete button: todos = todos.filter(t => t.id !== id)
DeleteTodo(p, id) ==
  [p EXCEPT !.todos = Arr(SelectSeq(p.todos.v, LAMBDA t : t.id # id))]

\* A drop that puts the dragged todo in front of where the target ends up.
DropTodoShifted(s, draggedIndex, targetIndex) ==
  Renumber(SpliceIn(SpliceOut(s, draggedIndex),
                    IF draggedIndex < targetIndex THEN targetIndex - 1
                    ELSE targetIndex, s[draggedIndex]))

\* the drop handler, once both indexes are found:
\*   const draggedTodo = todos.splice(draggedIndex, 1)[0];
\*   todos.splice(targetIndex, 0, draggedTodo);  then the orders are renumbered
DropTodo(s, draggedIndex, targetIndex) ==
  Renumber(SpliceIn(SpliceOut(s, draggedIndex), targetIndex, s[draggedIndex]))

\* history: a drop of the todo at position i onto the one at position j
\* (counted from 0) of the list before
EvDrop(i, j, before) == [type |-> "drop", i |-> i, j |-> j, before |-> before]
EvTodo(kind) == [type |-> kind]

\* ------------------------------------------------------------ text inputs
\* What the user has typed in a text input, as a sequence of characters
RawTexts == {<< >>, <<" ">>, <<" ", " ">>, <<"a">>, <<" ", "a">>, <<"a", " ">>}

\* A trim that leaves the text as it is.
TrimNone(s) == s

\* String.prototype.trim(): white space is removed from both ends
RECURSIVE Trim(_)
Trim(s) ==
  IF s = << >> THEN s
  ELSE IF Head(s) = " " THEN Trim(Tail(s))
  ELSE IF s[Len(s)] = " " THEN Trim(SubSeq(s, 1, Len(s) - 1))
  ELSE s

\* The string made of the characters of s
RECURSIVE Str(_)
Str(s) == IF s = << >> THEN "" ELSE Head(s) \o Str(Tail(s))

\* A handler was given the input raw when the plan was plan, the pending
\* timers ts and the number of saveDebounced calls so far calls.
EvInput(kind, raw, plan, ts, calls) ==
  [type |-> kind, raw |-> raw, plan |-> plan, timers |-> ts, calls |-> calls]

\* A handler returns before it has changed anything.
Rejected(event) ==
  /\ bound
  /\ ev' = event
  /\ UNCHANGED << tz, currentDate, currentPlan, bound, plannerApp, timeout,
                  timers, localStorage, remote, firebaseReady, userId,
                  windowFirebase, loads, saves, fb, nLogins, nEdits,
                  planDates, dirty, lost, cleared, dbc, pend >>

\* The add button or Enter in the input:
\*   const text = addInput.value.trim();  if (!text) return;
AddTodoClick ==
  \E raw \in RawTexts :
    LET text == Str(Trim(raw))
        event == EvInput("add", raw, currentPlan, timers, dbc.calls)
    IN IF text = "" THEN Rejected(event)
       ELSE Op(AddTodo(currentPlan, text), event)

\* A click on the delete button of a rendered todo
TodoDeleteClick ==
  \E k \in 1 .. Len(currentPlan.todos.v) :
    Op(DeleteTodo(currentPlan, currentPlan.todos.v[k].id), EvTodo("delete"))

\* A rendered todo is dropped on another one (on itself: nothing happens)
TodoDrop ==
  \E a, b \in 1 .. Len(currentPlan.todos.v) :
    LET s == currentPlan.todos.v
        draggedIndex == FindIndex(s, s[a].id)
        targetIndex == FindIndex(s, s[b].id)
    IN IF s[a].id = s[b].id \/ draggedIndex = 0 \/ targetIndex = 0
       THEN bound /\ UNCHANGED vars
       ELSE Op([currentPlan EXCEPT
                  !.todos = Arr(DropTodo(s, draggedIndex, targetIndex))],
               EvDrop(draggedIndex - 1, targetIndex - 1, s))

\* A page used without signing in, from empty stores
InitEdit ==
  /\ InitProgram
  /\ tz = 0
  /\ windowFirebase = FALSE
  /\ dbc = DbcIdle
  /\ pend = PendNone

NextTodo ==
  \/ DOMContentLoaded
  \/ AddTodoClick
  \/ TodoDeleteClick
  \/ TodoDrop
  \/ GoToWeekday
  \/ TimerFires

SpecTodo == InitEdit /\ [][NextTodo]_vars

\* ------------------------------------------------------------------ water
\* A click that fills one dot more than it should.
WaterClickOver(p, index) ==
  [p EXCEPT !.water = IF index < p.water THEN index ELSE index + 2]

\* bindWaterEvents, a click on the dot with data-index index: a filled dot
\* (renderWater: i < currentPlan.water) unfills itself and all after it,
\* an empty one fills up to itself.
WaterClick(p, index) ==
  [p EXCEPT !.water = IF index < p.water THEN index ELSE index + 1]

WaterDotClick ==
  \E index \in 0 .. (WaterDots - 1) :
    Op(WaterClick(currentPlan, index), [type |-> "water"])

NextWater ==
  \/ DOMContentLoaded
  \/ WaterDotClick
  \/ ClearAllData
  \/ DatePickerChange
  \/ GoToWeekday
  \/ TimerFires

SpecWater == InitEdit /\ [][NextWater]_vars

\* The older bindWaterEvents (src/unnamed/part_000): a click on a filled dot
\* runs  for (let i = index; i < 8; i++) currentPlan.water = i;
\* which leaves water at 7.
WaterClickOld(p, index) ==
  [p EXCEPT !.water = IF index < p.water THEN WaterDots - 1 ELSE index + 1]

WaterDotClickOld ==
  \E index \in 0 .. (WaterDots - 1) :
    Op(WaterClickOld(currentPlan, index), [type |-> "water"])

NextWaterOld ==
  \/ DOMContentLoaded
  \/ WaterDotClickOld
  \/ ClearAllData
  \/ DatePickerChange
  \/ GoToWeekday
  \/ TimerFires

SpecWaterOld == InitEdit /\ [][NextWaterOld]_vars

\* ----------------------------------------------------------------- habits
\* A habit is { id, title, days, completions }: days is an array of weekday
\* numbers (here its set of elements) and completions an object from date
\* keys to a status; a habit of an older version has neither.
Weekdays == 0 .. 6
HabitStatuses == {"unmarked", "completed", "not_done", "skipped"}
HabitActions == {"yes", "no", "skip"}
DaySets == {{}, {1, 3, 5}, {0}}
NoCompletions == [d \in {} |-> "unmarked"]

Habit(id, title, days, completions) ==
  [id |-> id, title |-> title, days |-> days, completions |-> completions]
LegacyHabit(id) ==
  Habit(id, "a", [k |-> "missing", v |-> {}],
        [k |-> "missing", v |-> NoCompletions])

\* A filter that shows a habit without days on no day.
IsScheduledStrict(habit, currentDay) == currentDay \in habit.days.v

\* The filter of renderHabits and updateCompletionStatus:
\*   if (!habit.days || habit.days.length === 0) return true;
\*   return habit.days.includes(currentDay);
IsScheduled(habit, currentDay) ==
  IF habit.days.k = "missing" \/ habit.days.v = {}
  THEN TRUE
  ELSE currentDay \in habit.days.v

\* todaysHabits = currentPlan.habits.filter(...)
TodaysHabits(habits, currentDay) ==
  SelectSeq(habits, LAMBDA habit : IsScheduled(habit, currentDay))

\* getTodayString(): formatDate(new Date()); today.getDay()
TodayString == FormatDate(Now, 0)
CurrentDay == GetWeekday(Now, 0)

\* habit.completions[today], undefined when there is none
HabitStatus(habit, today) ==
  IF habit.completions.k = "missing" \/ today \notin DOMAIN habit.completions.v
  THEN "unmarked"
  ELSE habit.completions.v[today]

\* handleHabitAction on the habit found:
\*   if (!habit.completions) habit.completions = {};
\*   yes -> 'completed', no -> 'not_done', skip -> 'skipped'
HabitAfterAction(habit, action, today) ==
  LET old == IF habit.completions.k = "missing" THEN NoCompletions
             ELSE habit.completions.v
      status == CASE action = "yes" -> "completed"
                  [] action = "no" -> "not_done"
                  [] action = "skip" -> "skipped"
      new == [d \in DOMAIN old \cup {today} |->
                IF d = today THEN status ELSE old[d]]
  IN [habit EXCEPT !.completions = [k |-> "obj", v |-> new]]

HandleHabitAction(p, habitId, action) ==
  [p EXCEPT !.habits = Arr([k \in 1 .. Len(p.habits.v) |->
      IF k = FindIndex(p.habits.v, habitId)
      THEN HabitAfterAction(p.habits.v[k], action, TodayString)
      ELSE p.habits.v[k]])]

\* createHabit with a title: currentPlan.habits.push(habit)
CreateHabit(p, title, days) ==
  [p EXCEPT !.habits = Arr(Append(p.habits.v,
      Habit(GenerateId(UsedIds(p)), title, [k |-> "arr", v |-> days],
            [k |-> "obj", v |-> NoCompletions])))]

\* The habit form is submitted:
\*   const title = document.getElementById('habit-title').value.trim();
\*   if (!title) { announceStatus('Please enter a habit title'); return; }
HabitFormSubmit ==
  \E raw \in RawTexts : \E days \in DaySets :
    LET title == Str(Trim(raw))
        event == EvInput("create", raw, currentPlan, timers, dbc.calls)
    IN IF title = "" THEN Rejected(event)
       ELSE Op(CreateHabit(currentPlan, title, days), event)

\* A click on an action button of a habit rendered for today
HabitActionClick ==
  \E k \in 1 .. Len(currentPlan.habits.v) : \E action \in HabitActions :
    /\ IsScheduled(currentPlan.habits.v[k], CurrentDay)
    /\ Op(HandleHabitAction(currentPlan, currentPlan.habits.v[k].id, action),
          [type |-> "habit"])

InitHabit ==
  /\ currentDate = Now
  /\ currentPlan = GetEmptyPlan
  /\ bound = FALSE
  /\ plannerApp = FALSE
  /\ timeout = 0
  /\ timers = {}
  /\ \E e \in {NoEntry,
              ObjEntry([GetEmptyPlan EXCEPT !.habits = Arr(<<LegacyHabit(5)>>)])} :
       localStorage = [k \in KeyDays |-> IF k = 0 THEN e ELSE NoEntry]
  /\ remote = [u \in Users |-> [k \in KeyDays |-> NoEntry]]
  /\ firebaseReady = FALSE
  /\ userId = NoUser
  /\ windowFirebase = FALSE
  /\ loads = << >>
  /\ saves = << >>
  /\ fb = FbIdle
  /\ nLogins = 0
  /\ nEdits = 0
  /\ planDates = {}
  /\ dirty = FALSE
  /\ lost = FALSE
  /\ cleared = {}
  /\ ev = EvOther
  /\ tz = 0
  /\ dbc = DbcIdle
  /\ pend = PendNone

NextHabit ==
  \/ DOMContentLoaded
  \/ HabitFormSubmit
  \/ HabitActionClick
  \/ GoToWeekday
  \/ TimerFires

SpecHabit == InitHabit /\ [][NextHabit]_vars

\* ------------------------------------------------------ sign-in with data
\* The user signs in on a device that has planner entries from before, saved
\* without a session or under another account, while the remote store holds
\* older entries of the user.
\* A plan another account, "u0", left in localStorage when it used the
\* device: loaded from its remote store and saved.
PlanOfOther ==
  [GetEmptyPlan EXCEPT !.water = 3,
                       !.meta = [has |-> TRUE, userId |-> "u0", synced |-> FALSE]]
LocalBefore == {[GetEmptyPlan EXCEPT !.notes = "a"], PlanOfOther}
RemoteBefore ==
  ObjEntry(SetPayload([GetEmptyPlan EXCEPT !.water = WaterDots, !.notes = "a",
                                           !.topThree = Arr(<<TopItem(1)>>)], "u1"))

InitSync ==
  /\ currentDate = Now
  /\ currentPlan = GetEmptyPlan
  /\ bound = FALSE
  /\ plannerApp = FALSE
  /\ timeout = 0
  /\ timers = {}
  /\ \E p \in LocalBefore :
     \E e \in {NoEntry, Garbage} \cup {ObjEntry(q) : q \in LocalBefore} :
       localStorage = [k \in KeyDays |->
                         IF k = 0 THEN ObjEntry(p) ELSE IF k = 1 THEN e ELSE NoEntry]
  /\ \E e \in {NoEntry, RemoteBefore} :
       remote = [u \in Users |-> [k \in KeyDays |->
                   IF k = 0 THEN RemoteBefore ELSE IF k = 1 THEN e ELSE NoEntry]]
  /\ firebaseReady = FALSE
  /\ userId = NoUser
  /\ windowFirebase = TRUE
  /\ loads = << >>
  /\ saves = << >>
  /\ fb = FbIdle
  /\ nLogins = 0
  /\ nEdits = 0
  /\ planDates = {}
  /\ dirty = FALSE
  /\ lost = FALSE
  /\ cleared = {}
  /\ ev = EvOther
  /\ tz = 0
  /\ dbc = DbcIdle
  /\ pend = PendNone

NextSync ==
  \/ DOMContentLoaded
  \/ NotesInput
  \/ TimerFires
  \/ SetIssueRemote
  \/ SetRemoteOk
  \/ SetRemoteFail
  \/ LoadRemoteRead
  \/ LoadReturn
  \/ InitWithFirebase
  \/ SyncStart
  \/ SyncPush
  \/ SyncReload

SpecSync == InitSync /\ [][NextSync]_vars

\* ------------------------------------------------------- quota exceeded
\* The parts of storage.set a try block with only the remote part would span
TryBlockRemoteOnly == {"remote"}

\* The parts of storage.set inside its try block: the localStorage write
\* and the remote write.
TryBlock == {"local", "remote"}

\* An exception thrown in a part of storage.set reaches the caller unless
\* the try block spans that part (the catch block logs and returns).
SetRaises(part) == part \notin TryBlock

\* localStorage.setItem throwing QuotaExceededError stores nothing.
SetItemFails(ls, key, data) == ls

EvQuota(key, before, raised) ==
  [type |-> "quota", key |-> key, before |-> before, raised |-> raised]

\* The debounce timer t is due and localStorage is full: savePlan calls
\* storage.set, setItem throws, the catch block logs; the remote part, which
\* comes after setItem in the try block, is skipped.
SavePlanQuota(t) ==
  /\ timers' = Later(timers, timeout, t)
  /\ dbc' = DbcFire(dbc)
  /\ localStorage' = SetItemFails(localStorage, Key, currentPlan)
  /\ ev' = EvQuota(Key, localStorage[Key], SetRaises("local"))
  /\ pend' = PendNone
  /\ UNCHANGED << tz, currentDate, currentPlan, bound, plannerApp, timeout,
                  remote, firebaseReady, userId, windowFirebase, loads, saves,
                  fb, nLogins, nEdits, planDates, dirty, lost, cleared >>

TimerFiresQuota == \E t \in timers : SavePlanQuota(t)

NextQuota ==
  \/ DOMContentLoaded
  \/ NotesInput
  \/ ScheduleInput
  \/ WaterDotClick
  \/ GoToWeekday
  \/ TimerFires
  \/ TimerFiresQuota

SpecQuota == InitEdit /\ [][NextQuota]_vars

\* ----------------------------------------------------- the two text forms
NextInput ==
  \/ DOMContentLoaded
  \/ AddTodoClick
  \/ HabitFormSubmit
  \/ TimerFires

SpecInput == InitEdit /\ [][NextInput]_vars

\* ------------------------------------------------- navigation, signed in
\* The page is opened by a user whose session is set up (initWithFirebase has
\* run to its end) and whose remote store holds a different plan for each date.
\* The remote writes of the saves stay pending.
RemotePlan(k) ==
  IF k = 0 THEN ObjEntry(SetPayload([GetEmptyPlan EXCEPT !.water = 3], "u1"))
  ELSE IF k = 1
  THEN ObjEntry(SetPayload([GetEmptyPlan EXCEPT !.water = WaterDots], "u1"))
  ELSE NoEntry

InitNav ==
  /\ currentDate = Now
  /\ currentPlan = GetEmptyPlan
  /\ bound = FALSE
  /\ plannerApp = FALSE
  /\ timeout = 0
  /\ timers = {}
  /\ localStorage = [k \in KeyDays |-> NoEntry]
  /\ remote = [u \in Users |-> [k \in KeyDays |-> RemotePlan(k)]]
  /\ firebaseReady = TRUE
  /\ userId = "u1"
  /\ windowFirebase = TRUE
  /\ loads = << >>
  /\ saves = << >>
  /\ fb = FbIdle
  /\ nLogins = 0
  /\ nEdits = 0
  /\ planDates = {}
  /\ dirty = FALSE
  /\ lost = FALSE
  /\ cleared = {}
  /\ ev = EvOther
  /\ tz = 0
  /\ dbc = DbcIdle
  /\ pend = PendNone

NextNav ==
  \/ DOMContentLoaded
  \/ NotesInput
  \/ DatePickerChange
  \/ GoToWeekday
  \/ TimerFires
  \/ LoadRemoteRead
  \/ LoadReturn

SpecNav == InitNav /\ [][NextNav]_vars

\* ================================================================ claims
\* Nothing is in progress: no timer is pending, no load and no save is
\* suspended, initWithFirebase is not running.
Quiescent ==
  timers = {} /\ loads = << >> /\ saves = << >> /\ fb.pc = "idle"

\* A valid PlanState: three topThree slots, todos and habits arrays, the 18
\* hourly keys, the meals object, water in 0..8.
ValidPlanState(p) ==
  /\ IsArray(p.topThree) /\ Len(p.topThree.v) = TopThreeSlots
  /\ IsArray(p.todos) /\ IsArray(p.habits)
  /\ p.schedule.k = "obj" /\ DOMAIN p.schedule.v = Hours
  /\ p.meals.k = "obj"
  /\ p.water \in 0 .. WaterDots

\* topThree is three slots with empty text, not done
EmptyTopThree(f) ==
  /\ IsArray(f) /\ Len(f.v) = TopThreeSlots
  /\ \A i \in 1 .. Len(f.v) : f.v[i].text = "" /\ ~f.v[i].done

\* The empty PlanState as a load leaves it
IsEmptyPlanState(p) ==
  /\ EmptyTopThree(p.topThree)
  /\ p.todos = Arr(<<>>) /\ p.habits = Arr(<<>>)
  /\ p.schedule = Obj(ScheduleTemplate)
  /\ p.notes = "" /\ p.meals = Obj(EmptyMeals) /\ p.water = 0

\* What a load of date key would put in memory now, without a session
LoadNow(key) == LoadPlanBody(StorageGetLocal(localStorage[key]))

\* A field of a stored entry as loadPlan finds it: missing when the entry
\* is not an object
StoredArray(e, f) == IF e.t = "obj" THEN e.o[f] ELSE NotArr("missing")
StoredSchedule(e) == IF e.t = "obj" THEN e.o.schedule ELSE NotObj("missing")

\* C1: without a session, right after savePlan has stored a valid PlanState S
\* under date D, what a load of D puts in memory is deep-equal to S.
C1_RoundTrip ==
  (ev.type = "set" /\ ~ev.sess /\ ValidPlanState(currentPlan))
    => LoadNow(ev.key) = currentPlan

C1_Witness ==
  /\ ev.type = "set" /\ ~ev.sess /\ ValidPlanState(currentPlan)
  /\ currentPlan.notes = "a" /\ currentPlan.todos.v # << >>
  /\ currentPlan.schedule.v[FirstHour] = "a"

C3_LoadSource ==
  ev.type = "load" =>
    LET fromRemote == ev.sess /\ ev.rem /\ ~ev.err
    IN /\ fromRemote => ev.isRem
       /\ (~fromRemote /\ ev.loc) => ev.isLoc
       /\ (~fromRemote /\ ~ev.loc)
            => (ev.isEmpty /\ currentPlan = RenderAll(GetEmptyPlan))

C3_Witness ==
  /\ ev.type = "load" /\ ev.sess /\ ev.rem /\ ~ev.err /\ ev.loc
  /\ ev.isRem /\ ~ev.isLoc

\* C4: every storage.set call has written localStorage under its key when it
\* returns or reaches its remote part, with or without a session; no remote
\* write is issued by a call that has not.
C4_LocalFirst ==
  /\ ev.type = "set" => ev.localFirst
  /\ \A i \in DOMAIN saves : saves[i].localFirst

C4_Witness ==
  \E i \in DOMAIN saves :
    /\ saves[i].stage = "write" /\ saves[i].localFirst
    /\ remote[saves[i].uid][saves[i].key] = NoEntry

\* C5: every plan written under the key of date D, by savePlan to
\* localStorage or by its remote write, was loaded for D or edited while D
\* was the active date.
C5_NoCrossDate ==
  /\ ev.type = "set" => ev.key \in ev.dates
  /\ \A i \in DOMAIN saves :
       saves[i].stage = "write" => saves[i].key \in saves[i].dates

\* C6: calls of triggerSave each less than wait after the one before give
\* one savePlan call, made wait after the last; calls each more than wait
\* after the one before give as many savePlan calls as there were calls.
C6_Coalescing ==
  (dbc.on /\ dbc.calls >= 1) =>
    /\ dbc.onTime
    /\ dbc.close => dbc.fired = (IF timers = {} THEN 1 ELSE 0)
    /\ dbc.far => dbc.fired = (IF timers = {} THEN dbc.calls ELSE dbc.calls - 1)

C6_Witness ==
  /\ dbc.on /\ dbc.calls = MaxEdits /\ dbc.close /\ ~dbc.far
  /\ timers = {} /\ dbc.fired = 1

\* C7: when nothing is in progress any more, every mutation made since the
\* active date was set is in a localStorage write under that date.
C7_EveryMutationPersisted ==
  Quiescent => (~lost /\ ~dirty)

\* C8: when nothing is in progress any more, a load of a date that was
\* cleared (and not edited since) gives the empty PlanState.
C8_ClearAll ==
  Quiescent => \A key \in cleared : IsEmptyPlanState(LoadNow(key))

TodoIds(s) == [k \in 1 .. Len(s) |-> s[k].id]

\* C11: a drop of the todo at position i onto the todo at position j puts the
\* dragged todo at position j, keeps the other todos in their order, and
\* leaves the orders 0..n-1 in sequence, so that sorting by order gives the
\* new sequence.
C11_Reorder ==
  ev.type = "drop" =>
    LET a == currentPlan.todos.v
        b == ev.before
    IN /\ Len(a) = Len(b)
       /\ a[ev.j + 1].id = b[ev.i + 1].id
       /\ TodoIds(SpliceOut(a, ev.j + 1)) = TodoIds(SpliceOut(b, ev.i + 1))
       /\ \A k \in 1 .. Len(a) : a[k].order = k - 1
       /\ SortByOrder(a) = a

C11_Witness ==
  /\ ev.type = "drop" /\ Len(ev.before) = 3 /\ ev.i = 0 /\ ev.j = 2
  /\ currentPlan.todos.v[3].id = ev.before[1].id

\* C12: the order fields of the todos are exactly 0..n-1 after any sequence
\* of adds, deletes and drops from the empty list.
C12_OrderInvariant ==
  LET s == currentPlan.todos.v
  IN /\ {s[k].order : k \in 1 .. Len(s)} = 0 .. (Len(s) - 1)
     /\ \A k, m \in 1 .. Len(s) : s[k].order = s[m].order => k = m

\* C13: once a load is over the schedule has all 18 hourly keys, whatever
\* was stored, and schedule edits keep them.
C13_ScheduleInvariant ==
  plannerApp =>
    /\ currentPlan.schedule.k = "obj"
    /\ Hours \subseteq DOMAIN currentPlan.schedule.v

\* C14: once a load is over topThree has exactly three items, whatever was
\* stored.
C14_TopThreeInvariant ==
  plannerApp =>
    /\ IsArray(currentPlan.topThree)
    /\ Len(currentPlan.topThree.v) = TopThreeSlots

\* C15: water is an integer from 0 to 8, in memory and in every entry the
\* application has saved, whatever dots are clicked.
C15_WaterRange ==
  /\ currentPlan.water \in 0 .. WaterDots
  /\ \A key \in KeyDays :
       localStorage[key].t = "obj" => localStorage[key].o.water \in 0 .. WaterDots

C15_Witness ==
  /\ ev.type = "load" /\ ev.loc
  /\ currentPlan.water = WaterDots
  /\ nEdits > 1

\* The habits of the plan in memory
PlanHabits == {currentPlan.habits.v[k] : k \in 1 .. Len(currentPlan.habits.v)}

\* C16: on every weekday w the habits shown and counted are those whose days
\* are missing, empty or contain w: a habit with no days on all seven
\* weekdays, one with days 1, 3, 5 on those three only.
C16_HabitScheduling ==
  \A w \in Weekdays :
    /\ \A habit \in PlanHabits :
           /\ habit.days.k = "missing" => IsScheduled(habit, w)
           /\ (habit.days.k = "arr" /\ habit.days.v = {}) => IsScheduled(habit, w)
           /\ (habit.days.k = "arr" /\ habit.days.v = {1, 3, 5})
                => (IsScheduled(habit, w) <=> w \in {1, 3, 5})
           /\ (habit.days.k = "arr" /\ habit.days.v # {})
                => (IsScheduled(habit, w) <=> w \in habit.days.v)
    /\ {x.id : x \in {TodaysHabits(currentPlan.habits.v, w)[k] :
                        k \in 1 .. Len(TodaysHabits(currentPlan.habits.v, w))}}
         = {habit.id : habit \in {x \in PlanHabits :
              x.days.k = "missing" \/ x.days.v = {} \/ w \in x.days.v}}
\* C16 witness: the plan holds a habit without days, one with an empty days
\* array and one with days 1, 3, 5, and today's list leaves the last one out.
C16_Witness ==
  /\ \E habit \in PlanHabits : habit.days.k = "missing"
  /\ \E habit \in PlanHabits : habit.days.k = "arr" /\ habit.days.v = {}
  /\ \E habit \in PlanHabits : habit.days.v = {1, 3, 5}
  /\ Len(TodaysHabits(currentPlan.habits.v, CurrentDay)) = 2

\* The habits handleHabitAction can make of a habit in at most n calls
RECURSIVE HabitsWithin(_, _)
HabitsWithin(hs, n) ==
  IF n = 0 THEN hs
  ELSE HabitsWithin(hs \cup {HabitAfterAction(x, action, TodayString) :
                               x \in hs, action \in HabitActions}, n - 1)

\* The statuses for today a habit can be brought to by the action buttons
ReachableStatuses(habit) ==
  {HabitStatus(x, TodayString) :
     x \in HabitsWithin({habit}, Cardinality(HabitStatuses))}

\* C17: from the status a habit has for today, each of the other statuses
\* (unmarked, completed, not_done, skipped) can be reached by
\* handleHabitAction called with yes, no or skip on that habit.
C17_AsStated ==
  \A habit \in PlanHabits :
    HabitStatuses \ {HabitStatus(habit, TodayString)}
      \subseteq ReachableStatuses(habit)

\* syncToFirebase has gone through all its keys and reached its last line.
SyncFinished == fb.pc = "push" /\ fb.todo = {}

\* The remote entry of key k holds the fields of the local entry and the
\* metadata of the signed-in user with synced: true.
SyncedCopy(k) ==
  /\ remote[userId][k].t = "obj"
  /\ PlannerFields(remote[userId][k].o) = PlannerFields(localStorage[k].o)
  /\ remote[userId][k].o.meta = [has |-> TRUE, userId |-> userId, synced |-> TRUE]

C19_LocalFailureSilent ==
  ev.type = "quota" =>
    /\ ~ev.raised
    /\ localStorage[ev.key] = ev.before
    /\ timers = {}

\* C19 witness: a save failed on a key that had an entry, and the plan in
\* memory is not what the entry holds.
C19_Witness ==
  /\ ev.type = "quota"
  /\ ev.before.t = "obj"
  /\ localStorage[ev.key] = ev.before
  /\ ev.key = Key
  /\ JSONStringify(currentPlan) # localStorage[ev.key]

\* C20: while there is no session (initFirebase not called, no user id or
\* no window.firebase) no load, save or bulk sync reads or writes the remote
\* store or raises an error.
C20_LocalOnly ==
  ~Session =>
    /\ loads = << >>
    /\ saves = << >>
    /\ \A u \in Users : \A k \in KeyDays : remote[u][k] = NoEntry
    /\ ev.type = "load" => ~ev.sess
    /\ ev.type # "syncerror"

\* The input is empty or white space only
IsBlank(raw) == \A i \in 1 .. Len(raw) : raw[i] = " "

\* C21: createHabit with an empty or white-space title and addTodo with
\* empty or white-space text leave the plan in memory as it was and call
\* no save: no timer is set and saveDebounced is not called.
C21_InputValidation ==
  (ev.type \in {"add", "create"} /\ IsBlank(ev.raw)) =>
    /\ currentPlan = ev.plan
    /\ timers = ev.timers
    /\ dbc.calls = ev.calls

\* C21 witness: a white-space title was submitted while the plan had a habit
\* and no save was pending.
C21_Witness ==
  /\ ev.type = "create"
  /\ ev.raw = <<" ", " ">>
  /\ Len(currentPlan.habits.v) > 0
  /\ Len(currentPlan.todos.v) > 0
  /\ currentPlan = ev.plan
  /\ timers = {}

\* C22: at no time are two storage.set calls started by savePlan in
\* progress for the same date.
C22_NoConcurrentSaves ==
  \A i, j \in DOMAIN saves : saves[i].key = saves[j].key => i = j

\* C23: once the saves of a date have returned, a load of that date gives
\* the planner fields of the value saved last, which is the localStorage
\* entry of the date, also with a session and an older value in the remote
\* store: the plan the load puts in memory is the one made of that entry.
\* Stated for the loads made while every save of the date has returned
\* before the first load was called (no edit since the page was opened).
C23_ReadYourWrites ==
  (/\ ev.type = "load"
   /\ localStorage[ev.key].t = "obj"
   /\ nEdits = 0 /\ saves = << >>)
  => PlannerFields(currentPlan) = PlannerFields(LoadNow(ev.key))

\* C27: the planner fields of the payload a save writes to the remote store
\* are those of the value the same save wrote to localStorage, also when
\* the plan in memory is edited between the two writes.
C27_OneSnapshot ==
  \A i \in DOMAIN saves :
    saves[i].stage = "write" =>
      PlannerFields(saves[i].payload) = PlannerFields(saves[i].S)

\* A navigation neither cancels nor flushes the pending timer.
NavigationKeepsTimer ==
  Key' # Key => (timers' = timers /\ localStorage' = localStorage)

\* The timer set for a mutation that is still in memory fires after the
\* active date has changed: the write does not go under the mutation's date.
DroppedEditFire ==
  (ev'.type = "set" /\ pend.on /\ pend.moved /\ pend.mem) => ev'.key # pend.key

\* While the timer of a mutation is pending after the active date has
\* changed, no remote write under the mutation's date carries it (a write
\* whose payload differs from the plan its save was called with).
NoWriteUnderOldDate ==
  (pend.on /\ pend.moved) =>
    \A i \in DOMAIN saves :
      (/\ saves[i].carries /\ saves[i].stage = "write"
       /\ PlannerFields(saves[i].payload) # PlannerFields(saves[i].S))
      => saves[i].key # pend.key

\* C24: a mutation made under date A is followed by a navigation to date B
\* before its timer fires: the navigation leaves the timer alone, the timer
\* fires later and writes under B's key, and no write that contains the
\* mutation is made under A's key.
C24_NavigationDropsEdit ==
  /\ [][NavigationKeepsTimer /\ DroppedEditFire]_vars
  /\ []NoWriteUnderOldDate

C29_StopsAtFirstFailure ==
  (ev.type = "syncerror" /\ ev.cause \in {"set", "parse"}) =>
    /\ fb.pc = "reload" /\ fb.todo = {}
    /\ \A k \in ev.rest \ ev.touched : remote[userId][k] = ev.start[k]

\* C29 witness: the parse of an entry failed while a local entry was still
\* to come, and the remote store does not hold the copy of that entry.
C29_Witness ==
  /\ ev.type = "syncerror" /\ ev.cause = "parse"
  /\ \E k \in ev.rest \ ev.touched :
       localStorage[k].t = "obj" /\ ~SyncedCopy(k)

\* C26: whenever no loadPlan call is in flight, the plan in memory is the
\* one the load of the active date has put there: the load that ended last
\* was for the active date.
C26_PlanMatchesActiveDate ==
  (ev.type = "load" /\ loads = << >>) => ev.key = Key

\* ------------------------------------------------------------ time zones
\* The page is used without signing in, in a browser whose local time is
\* behind, equal to or ahead of UTC.
Offsets == {-12, -5, 0, 5, 14}

InitZone ==
  /\ tz \in Offsets
  /\ currentDate = Now
  /\ currentPlan = GetEmptyPlan
  /\ bound = FALSE
  /\ plannerApp = FALSE
  /\ timeout = 0
  /\ timers = {}
  /\ \E e \in StoredEntries :
       localStorage = [k \in KeyDays |-> IF k = 0 THEN e ELSE NoEntry]
  /\ remote = [u \in Users |-> [k \in KeyDays |-> NoEntry]]
  /\ firebaseReady = FALSE
  /\ userId = NoUser
  /\ windowFirebase \in BOOLEAN
  /\ loads = << >>
  /\ saves = << >>
  /\ fb = FbIdle
  /\ nLogins = 0
  /\ nEdits = 0
  /\ planDates = {}
  /\ dirty = FALSE
  /\ lost = FALSE
  /\ cleared = {}
  /\ ev = EvOther
  /\ dbc = DbcIdle
  /\ pend = PendNone

NextZone ==
  \/ DOMContentLoaded
  \/ NotesInput
  \/ DatePickerChange
  \/ GoToWeekday
  \/ TimerFires

SpecZone == InitZone /\ [][NextZone]_vars

\* C30: in every time zone, choosing date D in the date picker makes D the
\* active date: the key loaded, and saved under from then on, is D.
C30_DatePickerKey ==
  [][DatePickerChange =>
       \E day \in Days : currentDate' = NewDateFromString(day) /\ Key' = day]_vars

\* C28: what another account (or nobody) wrote to localStorage is never
\* written to the remote path of the user who signs in afterwards: no remote
\* entry of a user holds the plan the other account left on the device.
C28_CrossUserIsolation ==
  \A u \in Users : \A k \in KeyDays :
    remote[u][k].t = "obj" =>
      PlannerFields(remote[u][k].o) # PlannerFields(PlanOfOther)
====
